---- MODULE Spec2Model ----
(***************************************************************************)
(* Model of the yek wrapper (src/src/main.rs, src/src/cli.rs, and the      *)
(* earlier variant src/src/main2.rs).                                      *)
(*                                                                         *)
(* A text (Rust String / &str) is a sequence of characters; a character is *)
(* a string naming one Unicode scalar value.  "U+00E9" names a scalar      *)
(* whose UTF-8 encoding is two bytes long, every other character used here *)
(* is one byte long.  "0xFF" names a byte that is not valid UTF-8 (it only *)
(* occurs in the captured stderr bytes).                                   *)
(***************************************************************************)
EXTENDS Integers, Sequences, FiniteSets, TLC

\* ------------------------------------------------------------------ bounds

\* Largest number of records the collector emits.
MaxFiles == 2
\* Largest number of records in the file-list runs (SpecFiles).
MaxSortFiles == 3
\* Largest value of --top-file-count / --top-dir-count that is enumerated.
MaxTop == 2
\* Largest value of --warn-large-files-by-line-count that is enumerated.
MaxWarn == 2

\* ------------------------------------------------------- program constants

\* cli.rs: #[arg(long, default_value_t = 9)]
DefaultTopFileCount == 9
\* cli.rs: #[arg(long, default_value_t = 6)]
DefaultTopDirCount == 6
\* cli.rs: #[arg(long, default_value_t = 300)]
DefaultWarnLines == 300
\* main.rs: text.chars().count() / 4
CharsPerToken == 4

\* ------------------------------------------------------------ text helpers

LF == "\n"

None == [some |-> FALSE, v |-> <<>>]
Some(x) == [some |-> TRUE, v |-> x]

\* str::len(): the length in UTF-8 bytes.
utf8_width(c) == IF c = "U+00E9" THEN 2 ELSE 1

RECURSIVE len(_)
len(text) ==
    IF text = <<>> THEN 0 ELSE utf8_width(Head(text)) + len(Tail(text))

\* str::chars().count(): the number of Unicode scalar values.
chars_count(text) == Len(text)

\* str::is_empty()
is_empty(text) == len(text) = 0

\* str::ends_with('\n')
ends_with_newline(text) == text /= <<>> /\ text[Len(text)] = LF

\* String::from_utf8_lossy: an invalid byte becomes U+FFFD.
RECURSIVE from_utf8_lossy(_)
from_utf8_lossy(bytes) ==
    IF bytes = <<>> THEN <<>>
    ELSE <<IF Head(bytes) = "0xFF" THEN "U+FFFD" ELSE Head(bytes)>>
             \o from_utf8_lossy(Tail(bytes))

\* vec![0; size] read as text: `size` NUL characters.
Zeros(size) == [i \in 1..size |-> "U+0000"]

\* str::split_inclusive('\n'): the lines of a text, each with its
\* terminating newline; a final unterminated segment is a line too, and a
\* text that ends with a newline has no empty last line.
RECURSIVE split_inclusive(_, _)
split_inclusive(text, cur) ==
    IF text = <<>> THEN (IF cur = <<>> THEN <<>> ELSE <<cur>>)
    ELSE IF Head(text) = LF
         THEN <<Append(cur, LF)>> \o split_inclusive(Tail(text), <<>>)
         ELSE split_inclusive(Tail(text), Append(cur, Head(text)))

\* str::lines().count()
lines_count(text) == Len(split_inclusive(text, <<>>))

\* A faulty estimate: bytes, not Unicode scalar values, per token.
estimate_tokens_bytes(text) == len(text) \div CharsPerToken

\* main.rs estimate_tokens
estimate_tokens(text) == chars_count(text) \div CharsPerToken

\* ------------------------------------------------- YekFile and the blob

\* struct YekFile { filename, content }
YekFile(filename, content) == [filename |-> filename, content |-> content]

\* The marker that starts a header line.
Marker == <<">", ">", ">", ">">>

\* format!(">>>> {}\n{}", file.filename, &file.content)
format_block(file) ==
    Marker \o <<" ">> \o file.filename \o <<LF>> \o file.content

\* main.rs: the loop that builds formatted_combined_content_for_clipboard,
\* from record i on: a newline follows every record but the last.
RECURSIVE format_from(_, _)
format_from(files, i) ==
    IF i > Len(files) THEN <<>>
    ELSE format_block(files[i])
           \o (IF i - 1 < Len(files) - 1 THEN <<LF>> ELSE <<>>)
           \o format_from(files, i + 1)

\* A faulty blob loop: no newline between one record and the next header.
RECURSIVE formatted_combined_content_no_separator(_)
formatted_combined_content_no_separator(files) ==
    IF files = <<>> THEN <<>>
    ELSE format_block(files[1])
           \o formatted_combined_content_no_separator(Tail(files))

formatted_combined_content(files) == format_from(files, 1)

\* main2.rs: the same loop in the earlier variant: the header line, the
\* content, and a newline only if the content does not end with one.
RECURSIVE formatted_combined_content2(_)
formatted_combined_content2(files) ==
    IF files = <<>> THEN <<>>
    ELSE Marker \o <<" ">> \o files[1].filename \o <<LF>>
           \o files[1].content
           \o (IF ~ends_with_newline(files[1].content) THEN <<LF>> ELSE <<>>)
           \o formatted_combined_content2(Tail(files))

\* main.rs: raw_combined_content, the contents pushed in record order.
RECURSIVE raw_combined_content(_)
raw_combined_content(files) ==
    IF files = <<>> THEN <<>>
    ELSE files[1].content \o raw_combined_content(Tail(files))

\* main.rs: total_lines, the sum of the per-file line counts.
RECURSIVE total_lines(_)
total_lines(files) ==
    IF files = <<>> THEN 0
    ELSE lines_count(files[1].content) + total_lines(Tail(files))

\* main.rs: token_count = estimate_tokens(&raw_combined_content)
token_count(files) == estimate_tokens(raw_combined_content(files))

\* ------------------------------------------------------- directory buckets

Sep == "/"

RECURSIVE strip_trailing_sep(_)
strip_trailing_sep(p) ==
    IF p /= <<>> /\ p[Len(p)] = Sep
    THEN strip_trailing_sep(SubSeq(p, 1, Len(p) - 1))
    ELSE p

\* The index of the last separator of p, 0 when it has none.
last_sep(p) ==
    LET idx == {i \in 1..Len(p) : p[i] = Sep}
    IN  IF idx = {} THEN 0 ELSE CHOOSE i \in idx : \A j \in idx : j <= i

\* Path::new(filename).parent(), for file names made of letters and "/"
\* (no "." or ".." components): None when the path has no component after
\* the root (the empty path, "/"), else the path without its last
\* component, "" for a bare file name and "/" for a file in the root.
parent(filename) ==
    LET p == strip_trailing_sep(filename)
    IN  IF p = <<>> THEN None
        ELSE LET pre == SubSeq(p, 1, last_sep(p))
                 dir == strip_trailing_sep(pre)
             IN  IF pre /= <<>> /\ dir = <<>> THEN Some(<<Sep>>)
                 ELSE Some(dir)

\* A faulty credit: the character count in place of the byte length.
credit_chars_count(entry, file) ==
    <<entry[1] + chars_count(file.content),
      entry[2] + lines_count(file.content)>>

\* main.rs: entry.0 += file.content.len(); entry.1 += lines().count()
credit(entry, file) ==
    <<entry[1] + len(file.content), entry[2] + lines_count(file.content)>>

\* main.rs: the loop that fills dir_sizes: HashMap<String, (usize, usize)>.
\* A record whose file name has no parent is skipped.
RECURSIVE dir_sizes(_)
dir_sizes(files) ==
    IF files = <<>> THEN [d \in {} |-> <<0, 0>>]
    ELSE LET prev == dir_sizes(SubSeq(files, 1, Len(files) - 1))
             file == files[Len(files)]
             par  == parent(file.filename)
         IN  IF par.some
             THEN [d \in DOMAIN prev \cup {par.v} |->
                     IF d = par.v
                     THEN credit(IF d \in DOMAIN prev THEN prev[d]
                                 ELSE <<0, 0>>, file)
                     ELSE prev[d]]
             ELSE prev

\* The orders in which HashMap::into_iter can yield the keys.
iteration_orders(S) ==
    {o \in [1..Cardinality(S) -> S] :
        \A i, j \in 1..Cardinality(S) : i /= j => o[i] /= o[j]}

\* dir_sizes.into_iter().collect() in iteration order `order`.
collect(sizes, order) ==
    [i \in 1..Len(order) |->
        [dir |-> order[i], size |-> sizes[order[i]][1],
         lines |-> sizes[order[i]][2]]]

\* One element inserted into a list sorted by descending key, after the
\* elements whose key is not smaller: a stable sort.
RECURSIVE insert_desc(_, _, _)
insert_desc(sorted, x, kx) ==
    IF sorted = <<>> THEN <<x>>
    ELSE IF Head(sorted)[1] >= kx
         THEN <<Head(sorted)>> \o insert_desc(Tail(sorted), x, kx)
         ELSE <<x>> \o sorted

\* slice::sort_by with a descending comparison of the keys: keyed is a
\* sequence of <<key, value>>.
RECURSIVE stable_sort_desc(_)
stable_sort_desc(keyed) ==
    IF keyed = <<>> THEN <<>>
    ELSE insert_desc(stable_sort_desc(SubSeq(keyed, 1, Len(keyed) - 1)),
                     keyed[Len(keyed)], keyed[Len(keyed)][1])

values(keyed) == [i \in 1..Len(keyed) |-> keyed[i][2]]

\* sorted_dirs.sort_by(|a, b| b.1.0.cmp(&a.1.0))
sort_dirs(dirs) ==
    values(stable_sort_desc([i \in 1..Len(dirs) |-> <<dirs[i].size, dirs[i]>>]))

\* A faulty sort: ascending content length.
sort_files_ascending(fs) ==
    LET s == values(stable_sort_desc(
                 [i \in 1..Len(fs) |-> <<0 - len(fs[i].content), fs[i]>>]))
    IN  s

\* files.sort_by(|a, b| b.content.len().cmp(&a.content.len()))
sort_files(fs) ==
    values(stable_sort_desc(
        [i \in 1..Len(fs) |-> <<len(fs[i].content), fs[i]>>]))

\* Iterator::take(n)
take(seq, n) == SubSeq(seq, 1, IF n < Len(seq) THEN n ELSE Len(seq))

\* ------------------------------------------------------------ the inputs

SeqsUpTo(S, n) == UNION {[1..k -> S] : k \in 0..n}

Records(filenames, contents) ==
    {YekFile(f, c) : f \in filenames, c \in contents}

\* cli.rs: struct Args
Args(tfc, tdc, warn, fc, path) ==
    [top_file_count |-> tfc, top_dir_count |-> tdc,
     warn_large_files_by_line_count |-> warn,
     from_clipboard |-> fc, path |-> path]

\* The positional PATH of the runs that give one, and the text the system
\* clipboard holds when the run starts.
CliPath == <<"/", "p">>
ClipboardPath == <<"/", "c">>

\* What std::process::ExitStatus displays as; only the first is success.
ExitStatuses == {"exit status: 0", "exit status: 1", "signal: 9 (SIGKILL)"}

\* The bytes the collector wrote to its stderr.
Stderrs == {<<>>, <<"b", "o", "o", "m">>, <<"b", "0xFF">>}

\* ExitStatus::success()
success(status) == status = "exit status: 0"

\* ------------------------------------------------------------- the state

VARIABLES
    args,          \* the parsed command line (cli.rs Args)
    yek,           \* the records the collector emits when it emits JSON
    os_clipboard,  \* the system clipboard: its text, and the accesses to it
    pc,            \* the position of main
    invocations,   \* the commands handed to the operating system, in order
    output,        \* std::process::Output of the collector
    files,         \* main's Vec<YekFile>
    blob,          \* formatted_combined_content_for_clipboard
    sorted_dirs,   \* main's sorted_dirs
    console,       \* what main printed to stdout, in order
    result         \* what main returned

vars == <<args, yek, os_clipboard, pc, invocations, output, files, blob,
          sorted_dirs, console, result>>

\* One printed item.  kind is "nothing", "summary", "dirs_header", "dir",
\* "files_header", "file" or "copied"; the other fields are the figures the
\* line shows (count: the number of files of the summary line).
Item(kind, name, empty, tokens, lines, chars, count, warning) ==
    [kind |-> kind, name |-> name, empty |-> empty, tokens |-> tokens,
     lines |-> lines, chars |-> chars, count |-> count,
     warning |-> warning]

Plain(kind) == Item(kind, <<>>, FALSE, 0, 0, 0, 0, FALSE)

Running == [kind |-> "running", msg |-> <<>>]
Ok == [kind |-> "ok", msg |-> <<>>]
Err(msg) == [kind |-> "err", msg |-> msg]

\* The process exit code of a main that returned `r`.
exit_code(r) == IF r.kind = "ok" THEN 0 ELSE 1

NoOutput == [status |-> "none", stderr |-> <<>>, json |-> FALSE,
             records |-> <<>>]

InitWith(argset, recordseqs) ==
    /\ args \in argset
    /\ yek \in recordseqs
    /\ os_clipboard = [text |-> ClipboardPath, reads |-> 0, writes |-> 0]
    /\ pc = "execute"
    /\ invocations = <<>>
    /\ output = NoOutput
    /\ files = <<>>
    /\ blob = <<>>
    /\ sorted_dirs = <<>>
    /\ console = <<>>
    /\ result = Running

\* ------------------------------------------------------------- main.rs

\* main.rs 31-35: the command main builds.
command(a) ==
    IF a.path.some
    THEN [program |-> "yek", argv |-> <<"--json", ".">>, cwd |-> a.path]
    ELSE [program |-> "yek", argv |-> <<"--json">>, cwd |-> None]

\* main.rs 36-38: cmd.output() fails (no `yek` on the search path, or the
\* working directory cannot be entered).
ExecuteFails ==
    /\ pc = "execute"
    /\ invocations' = Append(invocations, command(args))
    /\ result' = Err(<<"Failed to execute yek --json. Is 'yek' in your PATH?">>)
    /\ pc' = "done"
    /\ UNCHANGED <<args, yek, os_clipboard, output, files, blob,
                   sorted_dirs, console>>

\* main.rs 36-38: cmd.output() runs the collector to its end and captures
\* its status, stderr and stdout.
ExecuteOk ==
    /\ pc = "execute"
    /\ invocations' = Append(invocations, command(args))
    /\ \E st \in ExitStatuses, err \in Stderrs, json \in BOOLEAN :
          output' = [status |-> st, stderr |-> err, json |-> json,
                     records |-> IF json THEN yek ELSE <<>>]
    /\ pc' = "check_status"
    /\ UNCHANGED <<args, yek, os_clipboard, files, blob, sorted_dirs,
                   console, result>>

\* main.rs 42-47: the message of the bail!.
failure_message(out) ==
    <<"yek --json failed with status ", out.status, ":", LF>>
        \o from_utf8_lossy(out.stderr)

\* A faulty status check: a collector that failed is parsed all the same.
CheckStatusContinues ==
    /\ pc = "check_status"
    /\ ~success(output.status)
    /\ pc' = "parse"
    /\ UNCHANGED <<args, yek, os_clipboard, invocations, output, files,
                   blob, sorted_dirs, console, result>>

\* main.rs 40-48: a collector that did not succeed ends the run.
CheckStatusFails ==
    /\ pc = "check_status"
    /\ ~success(output.status)
    /\ result' = Err(failure_message(output))
    /\ pc' = "done"
    /\ UNCHANGED <<args, yek, os_clipboard, invocations, output, files,
                   blob, sorted_dirs, console>>

CheckStatusOk ==
    /\ pc = "check_status"
    /\ success(output.status)
    /\ pc' = "parse"
    /\ UNCHANGED <<args, yek, os_clipboard, invocations, output, files,
                   blob, sorted_dirs, console, result>>

\* main.rs 51-52: serde_json::from_slice rejects the stdout.
ParseFails ==
    /\ pc = "parse"
    /\ ~output.json
    /\ result' = Err(<<"Failed to parse JSON from yek output. Is the format correct?">>)
    /\ pc' = "done"
    /\ UNCHANGED <<args, yek, os_clipboard, invocations, output, files,
                   blob, sorted_dirs, console>>

\* main.rs 51-52: the stdout decodes as a Vec<YekFile>.
ParseOk ==
    /\ pc = "parse"
    /\ output.json
    /\ files' = output.records
    /\ pc' = "check_empty"
    /\ UNCHANGED <<args, yek, os_clipboard, invocations, output, blob,
                   sorted_dirs, console, result>>

\* A faulty empty check: the notice without the return.
NoFilesContinues ==
    /\ pc = "check_empty"
    /\ files = <<>>
    /\ console' = Append(console, Plain("nothing"))
    /\ pc' = "stats"
    /\ UNCHANGED <<args, yek, os_clipboard, invocations, output, files,
                   blob, sorted_dirs, result>>

\* main.rs 55-58: no records: the notice, and Ok(()).
NoFiles ==
    /\ pc = "check_empty"
    /\ files = <<>>
    /\ console' = Append(console, Plain("nothing"))
    /\ result' = Ok
    /\ pc' = "done"
    /\ UNCHANGED <<args, yek, os_clipboard, invocations, output, files,
                   blob, sorted_dirs>>

SomeFiles ==
    /\ pc = "check_empty"
    /\ files /= <<>>
    /\ pc' = "stats"
    /\ UNCHANGED <<args, yek, os_clipboard, invocations, output, files,
                   blob, sorted_dirs, console, result>>

\* main.rs 69-77: the summary line.
summary_item(fs) ==
    Item("summary", <<>>, FALSE, token_count(fs), total_lines(fs), 0,
         Len(fs), FALSE)

\* main.rs 60-77
Stats ==
    /\ pc = "stats"
    /\ console' = Append(console, summary_item(files))
    /\ pc' = "format"
    /\ UNCHANGED <<args, yek, os_clipboard, invocations, output, files,
                   blob, sorted_dirs, result>>

\* main.rs 79-87
Format ==
    /\ pc = "format"
    /\ blob' = formatted_combined_content(files)
    /\ pc' = "dirs"
    /\ UNCHANGED <<args, yek, os_clipboard, invocations, output, files,
                   sorted_dirs, console, result>>

\* main.rs 108-119: one line of the directory list.
dir_item(d) ==
    IF d.size = 0
    THEN Item("dir", IF d.dir = <<>> THEN <<".">> ELSE d.dir, TRUE,
              0, 0, 0, 0, FALSE)
    ELSE Item("dir", IF d.dir = <<>> THEN <<".">> ELSE d.dir, FALSE,
              estimate_tokens(from_utf8_lossy(Zeros(d.size))), d.lines,
              d.size, 0, FALSE)

\* main.rs 89-120
Dirs ==
    /\ pc = "dirs"
    /\ \E order \in iteration_orders(DOMAIN dir_sizes(files)) :
          sorted_dirs' = sort_dirs(collect(dir_sizes(files), order))
    /\ console' = console \o <<Plain("dirs_header")>>
          \o [i \in 1..Len(take(sorted_dirs', args.top_dir_count)) |->
                 dir_item(sorted_dirs'[i])]
    /\ pc' = "files"
    /\ UNCHANGED <<args, yek, os_clipboard, invocations, output, files,
                   blob, result>>

\* A faulty threshold test: strictly above.
warns_above(line_count, threshold) == line_count > threshold

\* main.rs 144: line_count >= args.warn_large_files_by_line_count
warns(line_count, threshold) == line_count >= threshold

\* main.rs 131-149: one line of the file list.
file_item(file, threshold) ==
    IF is_empty(file.content)
    THEN Item("file", file.filename, TRUE, 0, 0, 0, 0, FALSE)
    ELSE Item("file", file.filename, FALSE, estimate_tokens(file.content),
              lines_count(file.content), len(file.content), 0,
              warns(lines_count(file.content), threshold))

\* main.rs 122-150
Files ==
    /\ pc = "files"
    /\ files' = sort_files(files)
    /\ console' = console \o <<Plain("files_header")>>
          \o [i \in 1..Len(take(files', args.top_file_count)) |->
                 file_item(files'[i], args.warn_large_files_by_line_count)]
    /\ pc' = "copied"
    /\ UNCHANGED <<args, yek, os_clipboard, invocations, output, blob,
                   sorted_dirs, result>>

\* A faulty notice step: nothing is printed before the clipboard is used.
CopiedNoticeSkipped ==
    /\ pc = "copied"
    /\ pc' = "clipboard_new"
    /\ UNCHANGED <<args, yek, os_clipboard, invocations, output, files,
                   blob, sorted_dirs, console, result>>

\* main.rs 152-155
CopiedNotice ==
    /\ pc = "copied"
    /\ console' = Append(console, Plain("copied"))
    /\ pc' = "clipboard_new"
    /\ UNCHANGED <<args, yek, os_clipboard, invocations, output, files,
                   blob, sorted_dirs, result>>

\* main.rs 156: Clipboard::new() fails (no display, no session).
ClipboardNewFails ==
    /\ pc = "clipboard_new"
    /\ result' = Err(<<"Failed to initialize clipboard.">>)
    /\ pc' = "done"
    /\ UNCHANGED <<args, yek, os_clipboard, invocations, output, files,
                   blob, sorted_dirs, console>>

ClipboardNewOk ==
    /\ pc = "clipboard_new"
    /\ pc' = "set_text"
    /\ UNCHANGED <<args, yek, os_clipboard, invocations, output, files,
                   blob, sorted_dirs, console, result>>

\* main.rs 157-159: set_text fails; the clipboard keeps what it held.
SetTextFails ==
    /\ pc = "set_text"
    /\ result' = Err(<<"Failed to copy content to clipboard.">>)
    /\ pc' = "done"
    /\ UNCHANGED <<args, yek, os_clipboard, invocations, output, files,
                   blob, sorted_dirs, console>>

\* main.rs 157-161
SetTextOk ==
    /\ pc = "set_text"
    /\ os_clipboard' = [os_clipboard EXCEPT !.text = blob,
                                            !.writes = @ + 1]
    /\ result' = Ok
    /\ pc' = "done"
    /\ UNCHANGED <<args, yek, invocations, output, files, blob,
                   sorted_dirs, console>>

Next ==
    \/ ExecuteFails
    \/ ExecuteOk
    \/ CheckStatusFails
    \/ CheckStatusOk
    \/ ParseFails
    \/ ParseOk
    \/ NoFiles
    \/ SomeFiles
    \/ Stats
    \/ Format
    \/ Dirs
    \/ Files
    \/ CopiedNotice
    \/ ClipboardNewFails
    \/ ClipboardNewOk
    \/ SetTextFails
    \/ SetTextOk

\* ------------------------------------------------------ specifications

DefaultArgs ==
    Args(DefaultTopFileCount, DefaultTopDirCount, DefaultWarnLines, FALSE,
         None)

\* The runs of the control flow: every combination of --from-clipboard and
\* PATH, lists cut to nothing or left whole.
RunArgs ==
    {Args(tfc, tdc, DefaultWarnLines, fc, path) :
        tfc \in {0, DefaultTopFileCount}, tdc \in {0, DefaultTopDirCount},
        fc \in BOOLEAN, path \in {None, Some(CliPath)}}

RunRecords ==
    Records({<<"a">>, <<"d", "/", "b">>}, {<<"x">>, <<"y", LF>>})

Init == InitWith(RunArgs, SeqsUpTo(RunRecords, MaxFiles))

Spec == Init /\ [][Next]_vars

\* The runs that exercise the blob: contents with and without a final
\* newline, empty, a lone newline, a content with a line that starts with
\* the marker and one with the marker inside a line.
BlobContents ==
    {<<>>, <<"x">>, <<"y", LF>>, <<LF>>,
     <<">", ">", ">", ">", " ", "b", LF, "z">>,
     <<"x", ">", ">", ">", ">">>}

BlobRecords == Records({<<"a">>, <<"b">>}, BlobContents)

InitBlob == InitWith({DefaultArgs}, SeqsUpTo(BlobRecords, MaxFiles))

SpecBlob == InitBlob /\ [][Next]_vars

\* The runs that exercise the directory buckets: the empty file name, the
\* root, a bare name, a file in the root, and files one and two
\* directories deep; contents
\* whose byte length and character count differ.
DirFilenames ==
    {<<>>, <<"/">>, <<"a">>, <<"/", "a">>, <<"d", "/", "a">>,
     <<"d", "/", "e", "/", "a">>}

DirContents == {<<>>, <<"x">>, <<"U+00E9", "y", LF>>}

DirArgs ==
    {Args(DefaultTopFileCount, tdc, DefaultWarnLines, FALSE, None) :
        tdc \in 0..MaxTop}

InitDirs ==
    InitWith(DirArgs, SeqsUpTo(Records(DirFilenames, DirContents), MaxFiles))

SpecDirs == InitDirs /\ [][Next]_vars

\* The runs that exercise the file list: sizes with ties, line counts
\* around the thresholds, a content whose byte length and character count
\* fall on different sides of a multiple of four.
FileRecords ==
    {YekFile(<<"a">>, <<>>),
     YekFile(<<"a">>, <<"x">>),
     YekFile(<<"b">>, <<"x", LF, "y">>),
     YekFile(<<"c">>, <<LF, LF, LF>>),
     YekFile(<<"d">>, <<"U+00E9", LF, LF>>),
     YekFile(<<"e">>, <<"x", LF, "y", LF, "z">>)}

FileArgs ==
    {Args(tfc, DefaultTopDirCount, warn, FALSE, None) :
        tfc \in 0..MaxTop, warn \in 0..MaxWarn}

InitFiles == InitWith(FileArgs, SeqsUpTo(FileRecords, MaxSortFiles))

SpecFiles == InitFiles /\ [][Next]_vars

\* ------------------------------------------------------------ properties

\* Whether an item of this kind has been printed.
Printed(kind) == \E i \in DOMAIN console : console[i].kind = kind

\* The printed items of one kind, in the order they were printed.
ItemsOf(kind) == SelectSeq(console, LAMBDA it : it.kind = kind)

\* The records in collector order (main sorts `files` in place later on).
Collected == output.records

\* Whether `sub` occurs in `text`.
Contains(text, sub) ==
    \E i \in 0..(Len(text) - Len(sub)) :
        SubSeq(text, i + 1, i + Len(sub)) = sub

\* The blob has been built from the records.
BlobBuilt == Printed("summary") /\ pc /= "format"

\* The directory list, and the file list, has been printed.
DirsDone == Printed("dirs_header")
FilesDone == Printed("files_header")

\* C1: once the blob is built it is, for every record in collector order,
\* the header line, the content, and a newline only if the content does not
\* end with one (the framing that main2.rs builds).
C1_BlobIsNewlineTerminatedBlocks ==
    BlobBuilt => blob = formatted_combined_content2(Collected)

\* ---- C2

RECURSIVE SumContentLen(_)
SumContentLen(recs) ==
    IF recs = <<>> THEN 0
    ELSE len(recs[1].content) + SumContentLen(Tail(recs))

RECURSIVE SumBucketSizes(_)
SumBucketSizes(dirs) ==
    IF dirs = <<>> THEN 0 ELSE dirs[1].size + SumBucketSizes(Tail(dirs))

HasParent(rec) == rec.filename /= <<>> /\ rec.filename /= <<Sep>>

\* The directory part of a file name that has one: the characters before
\* its last separator ("/" itself for a file in the root).
DirectoryOf(filename) ==
    LET cut == CHOOSE i \in 0..Len(filename) :
                  /\ i > 0 => filename[i] = Sep
                  /\ \A j \in (i + 1)..Len(filename) : filename[j] /= Sep
    IN  IF cut <= 1 THEN SubSeq(filename, 1, cut)
        ELSE SubSeq(filename, 1, cut - 1)

\* C2 as stated: the bucket totals add up to the content lengths of all
\* the records.
C2_BucketsSumToAllRecords ==
    DirsDone => SumBucketSizes(sorted_dirs) = SumContentLen(Collected)

\* C2 as amended: the bucket totals add up to the content lengths of the
\* records whose file name has a parent directory (it is neither empty nor
\* the root); each of those is credited to the one bucket of its immediate
\* parent directory, and a record without a parent to none.
C2_BucketsSumToRecordsWithParent ==
    DirsDone =>
        /\ SumBucketSizes(sorted_dirs)
             = SumContentLen(SelectSeq(Collected, HasParent))
        /\ \A i, j \in DOMAIN sorted_dirs :
              sorted_dirs[i].dir = sorted_dirs[j].dir => i = j
        /\ \A i \in DOMAIN sorted_dirs :
              sorted_dirs[i].size =
                 SumContentLen(SelectSeq(Collected,
                    LAMBDA r : HasParent(r)
                               /\ DirectoryOf(r.filename) = sorted_dirs[i].dir))
        /\ \A k \in DOMAIN Collected :
              HasParent(Collected[k]) =>
                 \E i \in DOMAIN sorted_dirs :
                    sorted_dirs[i].dir = DirectoryOf(Collected[k].filename)

\* A record without a parent and two records that share a bucket, with
\* contents that count.
C2_Witness ==
    /\ DirsDone
    /\ \E k \in DOMAIN Collected :
          ~HasParent(Collected[k]) /\ len(Collected[k].content) > 0
    /\ \E i \in DOMAIN sorted_dirs :
          sorted_dirs[i].size > 1 /\ sorted_dirs[i].dir = <<"d">>

\* ---- C3

\* C3: with --from-clipboard the clipboard is read before the collector is
\* invoked and the collector runs in the directory it held, with the
\* trailing "." argument; without it the clipboard is not read before the
\* invocation.
C3_FromClipboardSetsWorkingDirectory ==
    invocations /= <<>> =>
        IF args.from_clipboard
        THEN /\ os_clipboard.reads >= 1
             /\ invocations[1].cwd = Some(ClipboardPath)
             /\ invocations[1].argv = <<"--json", ".">>
        ELSE os_clipboard.reads = 0

\* ---- C4

\* C4: the clipboard is written at most once, and a write is the last step
\* of a run in which the collector was invoked, succeeded, its stdout
\* decoded to at least one record, and the summary, the directory list and
\* the file list were printed; a run that ended otherwise, the zero-record
\* run (which prints its notice and succeeds) included, left the clipboard
\* alone.
C4_ClipboardWrittenLastAndOnlyOnSuccess ==
    /\ os_clipboard.writes <= 1
    /\ os_clipboard.writes = 1 =>
          /\ pc = "done" /\ ~ENABLED Next
          /\ result = Ok
          /\ Len(invocations) = 1
          /\ success(output.status) /\ output.json /\ Collected /= <<>>
          /\ Printed("summary") /\ DirsDone /\ FilesDone
          /\ os_clipboard.text = blob
    /\ os_clipboard.writes = 0 => os_clipboard.text = ClipboardPath
    /\ (pc = "done" /\ (\/ output.status = "none"
                        \/ ~success(output.status)
                        \/ ~output.json
                        \/ Collected = <<>>)) =>
          os_clipboard.writes = 0
    /\ (pc = "done" /\ success(output.status) /\ output.json
          /\ Collected = <<>>) =>
          console = <<Plain("nothing")>> /\ exit_code(result) = 0

\* A run of two records that wrote the blob to the clipboard.
C4_Witness ==
    /\ os_clipboard.writes = 1
    /\ os_clipboard.text = blob
    /\ Len(Collected) = 2

\* ---- C5

\* C5: the collector is invoked once and never again; when it exits with a
\* status that is not success the run ends with an error whose message
\* holds the status and the captured stderr text, and nothing is printed.
C5_FailedCollectorEndsRun ==
    /\ Len(invocations) <= 1
    /\ pc /= "execute" => Len(invocations) = 1
    /\ (output.status /= "none" /\ ~success(output.status)
          /\ pc /= "check_status") =>
          /\ pc = "done"
          /\ result.kind = "err" /\ exit_code(result) = 1
          /\ Contains(result.msg, <<output.status>>)
          /\ Contains(result.msg, from_utf8_lossy(output.stderr))
          /\ console = <<>>

\* A run whose collector exited with status 1 and "boom" on stderr.
C5_Witness ==
    /\ pc = "done"
    /\ output.status = "exit status: 1"
    /\ output.stderr = <<"b", "o", "o", "m">>
    /\ result.kind = "err"

\* ---- C6

\* The number of Unicode scalar values in all the contents together.
RECURSIVE ScalarsIn(_)
ScalarsIn(recs) ==
    IF recs = <<>> THEN 0
    ELSE Len(recs[1].content) + ScalarsIn(Tail(recs))

RECURSIVE SumOfFloors(_)
SumOfFloors(recs) ==
    IF recs = <<>> THEN 0
    ELSE (Len(recs[1].content) \div 4) + SumOfFloors(Tail(recs))

\* C6: the token count of the summary line is floor(N / 4), N the number of
\* Unicode scalar values of all contents together, and the estimate of the
\* empty text is 0.
C6_SummaryTokensAreFloorOfQuarter ==
    /\ estimate_tokens(<<>>) = 0
    /\ Printed("summary") =>
          /\ Len(ItemsOf("summary")) = 1
          /\ ItemsOf("summary")[1].tokens = ScalarsIn(Collected) \div 4

\* A summary whose token count is not the sum of the per-file estimates.
C6_Witness ==
    /\ Printed("summary")
    /\ ItemsOf("summary")[1].tokens /= SumOfFloors(Collected)

\* ---- C7

Min(a, b) == IF a < b THEN a ELSE b

Occurrences(seq, x) == Cardinality({i \in DOMAIN seq : seq[i] = x})

\* C7: the file list shows min(top_file_count, number of records) files of
\* the collector's records, in non-increasing order of content length, and
\* no file left out is longer than a file shown.
C7_FileListIsTopN ==
    FilesDone =>
        LET shown == ItemsOf("file")
            n == Min(args.top_file_count, Len(Collected))
        IN  /\ Len(shown) = n
            /\ Len(files) = Len(Collected)
            /\ \A k \in DOMAIN Collected :
                  Occurrences(files, Collected[k])
                     = Occurrences(Collected, Collected[k])
            /\ \A i \in 1..n :
                  /\ shown[i].name = files[i].filename
                  /\ shown[i].chars = len(files[i].content)
            /\ \A i \in 1..n : \A j \in (i + 1)..Len(files) :
                  len(files[i].content) >= len(files[j].content)

\* Three records that arrive out of order, the two smaller ones of one
\* size, and a list cut between those two.
C7_Witness ==
    /\ FilesDone
    /\ args.top_file_count = 2
    /\ Len(Collected) = 3
    /\ len(Collected[1].content) < len(Collected[3].content)
    /\ len(files[1].content) > len(files[2].content)
    /\ len(files[2].content) = len(files[3].content)
    /\ len(files[3].content) > 0
    /\ files[2].filename /= files[3].filename

\* ---- C8

\* The number of newline-terminated or final unterminated segments.
ClaimedLines(text) ==
    Cardinality({i \in DOMAIN text : text[i] = LF})
      + (IF text /= <<>> /\ text[Len(text)] /= LF THEN 1 ELSE 0)

\* C8 as stated: every file of the file list is in the warning style if and
\* only if its line count is at least the threshold.
C8_WarningIffAtLeastThreshold ==
    FilesDone =>
        \A i \in DOMAIN ItemsOf("file") :
            ItemsOf("file")[i].warning
              <=> (ClaimedLines(files[i].content)
                     >= args.warn_large_files_by_line_count)

\* C8 as amended: every file of the file list whose content is not empty is
\* in the warning style if and only if its line count is at least the
\* threshold, and its printed figures are its token estimate, line count
\* and byte length whatever the style; a file whose content is empty is
\* printed as empty, in the plain style (also when the threshold is 0).
C8_NonEmptyWarningIffAtLeastThreshold ==
    FilesDone =>
        \A i \in DOMAIN ItemsOf("file") :
            LET it == ItemsOf("file")[i]
                content == files[i].content
            IN  IF content = <<>>
                THEN it.empty /\ ~it.warning
                ELSE /\ ~it.empty
                     /\ it.warning
                          <=> (ClaimedLines(content)
                                 >= args.warn_large_files_by_line_count)
                     /\ it.tokens = Len(content) \div 4
                     /\ it.lines = ClaimedLines(content)
                     /\ it.chars = len(content)

\* A list with a file of exactly threshold lines, flagged, and a file with
\* content of one line fewer, not flagged.
C8_Witness ==
    /\ FilesDone
    /\ \E i, j \in DOMAIN ItemsOf("file") :
          /\ ItemsOf("file")[i].lines = args.warn_large_files_by_line_count
          /\ ItemsOf("file")[i].warning
          /\ files[j].content /= <<>>
          /\ ItemsOf("file")[j].lines
                = args.warn_large_files_by_line_count - 1
          /\ ~ItemsOf("file")[j].warning

\* ---- C9

\* Whether `pre` is a prefix of `text`.
starts_with(text, pre) ==
    /\ Len(pre) <= Len(text)
    /\ SubSeq(text, 1, Len(pre)) = pre

\* The indices of the lines of a text that start with the marker.
MarkerLines(lines) ==
    SelectSeq([i \in DOMAIN lines |-> i],
              LAMBDA i : starts_with(lines[i], Marker))

RECURSIVE Concat(_)
Concat(seqs) == IF seqs = <<>> THEN <<>> ELSE Head(seqs) \o Concat(Tail(seqs))

DropLast(text) == SubSeq(text, 1, Len(text) - 1)

\* The records read back from a blob by scanning for the lines that start
\* with the marker: a marker line gives the file name (what follows the
\* marker and one space, without the newline), the lines up to the next
\* marker line give the content, less the newline that separates it from
\* the next header.
ReadBack(text) ==
    LET lines == split_inclusive(text, <<>>)
        heads == MarkerLines(lines)
    IN  [k \in DOMAIN heads |->
            LET h == lines[heads[k]]
                last == k = Len(heads)
                upto == IF last THEN Len(lines) ELSE heads[k + 1] - 1
                body == Concat(SubSeq(lines, heads[k] + 1, upto))
            IN  YekFile(SubSeq(h, Len(Marker) + 2,
                               IF ends_with_newline(h) THEN Len(h) - 1
                               ELSE Len(h)),
                        IF last THEN body ELSE DropLast(body))]

\* No line of the content starts with the marker.
MarkerFree(rec) == MarkerLines(split_inclusive(rec.content, <<>>)) = <<>>

\* The blob has one marker line per record, the k-th is the header of the
\* k-th record, and the records can be read back from the blob.
Recoverable(recs, text) ==
    LET lines == split_inclusive(text, <<>>)
        heads == MarkerLines(lines)
    IN  /\ Len(heads) = Len(recs)
        /\ \A k \in DOMAIN heads :
              lines[heads[k]] = Marker \o <<" ">> \o recs[k].filename \o <<LF>>
        /\ ReadBack(text) = recs

\* C9 as stated: whatever the contents, the blob has exactly one marker
\* line per record, each that record's header, in record order, and the
\* records can be read back from it (so no two record sequences share a
\* blob).
C9_BoundariesRecoverable ==
    BlobBuilt => Recoverable(Collected, blob)

\* C9 as amended: when no content has a line that starts with the marker
\* (and no file name holds a newline), the blob built by main.rs has
\* exactly one marker line per record, each that record's header, in record
\* order, and the records can be read back from it.
C9_MarkerFreeBoundariesRecoverable ==
    (BlobBuilt /\ \A k \in DOMAIN Collected : MarkerFree(Collected[k]))
        => Recoverable(Collected, blob)

\* Two records without marker lines, the first ending with a newline, the
\* second with the marker inside a line.
C9_Witness ==
    /\ BlobBuilt
    /\ Len(Collected) = 2
    /\ \A k \in DOMAIN Collected : MarkerFree(Collected[k])
    /\ ends_with_newline(Collected[1].content)
    /\ Contains(Collected[2].content, Marker)

\* ---- C10

ClipboardErrors ==
    {Err(<<"Failed to initialize clipboard.">>),
     Err(<<"Failed to copy content to clipboard.">>)}

\* C10: the notice that the blob was copied is printed before the
\* clipboard is initialised and before the write is attempted: a run that
\* fails at either step has printed it, ends with a non-zero exit code,
\* and has not written the clipboard.
C10_NoticePrecedesClipboard ==
    /\ pc \in {"clipboard_new", "set_text"} =>
          /\ Printed("copied")
          /\ os_clipboard.writes = 0
    /\ result \in ClipboardErrors =>
          /\ Printed("copied")
          /\ console[Len(console)] = Plain("copied")
          /\ exit_code(result) /= 0
          /\ os_clipboard.writes = 0
          /\ os_clipboard.text = ClipboardPath

\* The notice is printed, the write failed, and the clipboard does not
\* hold the blob.
C10_Witness ==
    /\ result = Err(<<"Failed to copy content to clipboard.">>)
    /\ Printed("copied")
    /\ os_clipboard.text /= blob

====
